---------------------------- MODULE Spec2Model ----------------------------
(***************************************************************************)
(* Model of components/tooltip/index.tsx (ant-design Tooltip).             *)
(*                                                                         *)
(*   Spec       the open-state controller of one mounted Tooltip           *)
(*   SpecAlias  two Tooltips mounted with `open` and `visible` exchanged,  *)
(*              driven by the same requests and re-renders                 *)
(*   SpecAlign  onPopupAlign writing transform-origin on the popup node    *)
(*   SpecAdapt  getDisabledCompatibleChildren applied to a child element   *)
(*                                                                         *)
(* JavaScript values are strings: "undefined", "null", "true", "false",    *)
(* "str:" (the empty string), "num:0" (the number 0), "str:text" (any      *)
(* non-empty node).  "absent" marks a key that is not in props.            *)
(***************************************************************************)
EXTENDS Integers, Sequences, FiniteSets, TLC

VARIABLES tooltip, twin, node, aligned, child, adapted

vars == <<tooltip, twin, node, aligned, child, adapted>>

-----------------------------------------------------------------------------
(* Bounds *)

\* Most requestOpen calls made on one mounted Tooltip.
MaxRequests == 2

\* Most keys in the inline style of a child element.
MaxStyleKeys == 2

-----------------------------------------------------------------------------
(* JavaScript values *)

JsAbsent == "absent"
JsUndefined == "undefined"
JsTrue == "true"
JsFalse == "false"
JsZero == "num:0"
JsEmptyString == "str:"
JsText == "str:text"

JsBool == {JsTrue, JsFalse}

\* ToBoolean: the falsy values are undefined, null, false, "", 0.
Truthy(x) == x \notin {JsAbsent, JsUndefined, "null", JsFalse, JsEmptyString, JsZero}

\* props.k: a key that is not in props reads as undefined.
Get(p, k) == IF p[k] = JsAbsent THEN JsUndefined ELSE p[k]

\* 'k' in props
In(p, k) == p[k] # JsAbsent

\* a ?? b
Coalesce(a, b) == IF a \in {JsUndefined, "null"} THEN b ELSE a

-----------------------------------------------------------------------------
(* Props of a Tooltip *)

\* title / overlay values a caller passes.
Contents == {JsAbsent, JsEmptyString, JsZero, JsText}

\* open / visible: not passed, passed as undefined, or a boolean.
ControlValues == {JsAbsent, JsUndefined, JsTrue, JsFalse}

\* defaultOpen / defaultVisible.
DefaultValues == {JsAbsent, JsTrue, JsFalse}

\* onOpenChange / onVisibleChange: not passed, or a function.
Listeners == {JsAbsent, "fn"}

TooltipProps ==
    [open : ControlValues, visible : ControlValues,
     defaultOpen : DefaultValues, defaultVisible : DefaultValues,
     onOpenChange : Listeners, onVisibleChange : Listeners,
     title : Contents, overlay : Contents]

\* useMergedState(false, {value, defaultValue}) of rc-util, as the component
\* uses it: the result is `value` whenever `value` is not undefined, and
\* otherwise an inner state that starts as value, else defaultValue, else
\* false, and that setOpen overwrites.

\* useMergedState option `value`
MergedValueLegacyOnly(p) == Get(p, "open")
MergedValue(p) == Coalesce(Get(p, "open"), Get(p, "visible"))

\* useMergedState option `defaultValue`
DefaultValue(p) == Coalesce(Get(p, "defaultOpen"), Get(p, "defaultVisible"))

\* useMergedState: the inner state at the first render.
InitInnerValue(p) ==
    IF MergedValue(p) # JsUndefined THEN MergedValue(p)
    ELSE IF DefaultValue(p) # JsUndefined THEN DefaultValue(p)
    ELSE JsFalse

\* useMergedState: `open`, the controlled value when there is one, else the
\* inner state.
Open(t) ==
    IF MergedValue(t.props) # JsUndefined THEN MergedValue(t.props)
    ELSE t.innerValue

isNoTitleIgnoringZero(p) == ~Truthy(p.title) /\ ~Truthy(p.overlay)
isNoTitle(p) == ~Truthy(p.title) /\ ~Truthy(p.overlay) /\ Get(p, "title") # JsZero

getOverlay(p) ==
    IF Get(p, "title") = JsZero THEN Get(p, "title")
    ELSE IF Truthy(p.overlay) THEN p.overlay
    ELSE IF Truthy(p.title) THEN p.title
    ELSE JsEmptyString

\* The `visible` prop handed to RcTooltip.
tempOpenAlwaysHidden(t) == IF isNoTitle(t.props) THEN JsFalse ELSE Open(t)
tempOpenNoOverride(t) == Open(t)
tempOpen(t) ==
    IF ~In(t.props, "open") /\ ~In(t.props, "visible") /\ isNoTitle(t.props)
    THEN JsFalse
    ELSE Open(t)

\* The calls props.onOpenChange?.(vis); props.onVisibleChange?.(vis) make.
Notify(p, vis) ==
    (IF In(p, "onOpenChange") THEN <<[fn |-> "onOpenChange", arg |-> vis]>> ELSE <<>>)
    \o (IF In(p, "onVisibleChange") THEN <<[fn |-> "onVisibleChange", arg |-> vis]>> ELSE <<>>)

\* A Tooltip at its first render.  calls is the log of listener calls;
\* requests counts the requestOpen calls; lastRequest is the last
\* requestOpen call: its argument, whether the content was empty then, and
\* whether the content was re-rendered since.
Mount(p) ==
    [props |-> p, innerValue |-> InitInnerValue(p), calls |-> <<>>, requests |-> 0,
     lastRequest |-> [vis |-> "none", noTitle |-> FALSE, stale |-> FALSE]]

\* onOpenChange(vis), the onVisibleChange callback of RcTooltip.
onOpenChangeTracking(t, vis) ==
    [t EXCEPT !.innerValue = vis,
              !.calls = IF isNoTitle(t.props) THEN @ ELSE @ \o Notify(t.props, vis),
              !.requests = @ + 1,
              !.lastRequest = [vis |-> vis, noTitle |-> isNoTitle(t.props), stale |-> FALSE]]
onOpenChangeAlwaysNotify(t, vis) ==
    [t EXCEPT !.innerValue = IF isNoTitle(t.props) THEN JsFalse ELSE vis,
              !.calls = @ \o Notify(t.props, vis),
              !.requests = @ + 1,
              !.lastRequest = [vis |-> vis, noTitle |-> isNoTitle(t.props), stale |-> FALSE]]
onOpenChangeDedup(t, vis) ==
    [t EXCEPT !.innerValue = IF isNoTitle(t.props) THEN JsFalse ELSE vis,
              !.calls = IF isNoTitle(t.props) \/ vis = Open(t) THEN @
                        ELSE @ \o Notify(t.props, vis),
              !.requests = @ + 1,
              !.lastRequest = [vis |-> vis, noTitle |-> isNoTitle(t.props), stale |-> FALSE]]
onOpenChange(t, vis) ==
    [t EXCEPT !.innerValue = IF isNoTitle(t.props) THEN JsFalse ELSE vis,
              !.calls = IF isNoTitle(t.props) THEN @ ELSE @ \o Notify(t.props, vis),
              !.requests = @ + 1,
              !.lastRequest = [vis |-> vis, noTitle |-> isNoTitle(t.props), stale |-> FALSE]]

\* The parent renders the Tooltip again with another title and overlay.
RenderContent(t, title, overlay) ==
    [t EXCEPT !.props.title = title, !.props.overlay = overlay,
              !.lastRequest.stale = TRUE]

\* The parent renders a controlled Tooltip again with another value of the
\* controlling prop k; the inner state of useMergedState is left alone while
\* the value stays defined.
RenderControl(t, k, b) == [t EXCEPT !.props[k] = b]

-----------------------------------------------------------------------------
(* Spec: one mounted Tooltip *)

NoTooltip == Mount([open |-> JsAbsent, visible |-> JsAbsent,
                    defaultOpen |-> JsAbsent, defaultVisible |-> JsAbsent,
                    onOpenChange |-> JsAbsent, onVisibleChange |-> JsAbsent,
                    title |-> JsAbsent, overlay |-> JsAbsent])

Init ==
    /\ \E p \in TooltipProps : tooltip = Mount(p)
    /\ twin = NoTooltip
    /\ node = <<>>
    /\ aligned = <<>>
    /\ child = <<>>
    /\ adapted = <<>>

RequestOpen ==
    /\ tooltip.requests < MaxRequests
    /\ \E vis \in JsBool : tooltip' = onOpenChange(tooltip, vis)
    /\ UNCHANGED <<twin, node, aligned, child, adapted>>

SetContent ==
    /\ \E title \in Contents, overlay \in Contents :
          /\ <<title, overlay>> # <<tooltip.props.title, tooltip.props.overlay>>
          /\ tooltip' = RenderContent(tooltip, title, overlay)
    /\ UNCHANGED <<twin, node, aligned, child, adapted>>

SetControl ==
    /\ \E k \in {"open", "visible"}, b \in JsBool :
          /\ tooltip.props[k] \in JsBool
          /\ tooltip.props[k] # b
          /\ tooltip' = RenderControl(tooltip, k, b)
    /\ UNCHANGED <<twin, node, aligned, child, adapted>>

Next == RequestOpen \/ SetContent \/ SetControl

Spec == Init /\ [][Next]_vars

-----------------------------------------------------------------------------
(* SpecAlias: the same Tooltip mounted twice, `open` and `visible` exchanged *)

Swap(p) == [p EXCEPT !.open = p.visible, !.visible = p.open]

Other(k) == IF k = "open" THEN "visible" ELSE "open"

InitAlias ==
    /\ \E p \in TooltipProps : tooltip = Mount(p) /\ twin = Mount(Swap(p))
    /\ node = <<>>
    /\ aligned = <<>>
    /\ child = <<>>
    /\ adapted = <<>>

AliasRequestOpen ==
    /\ tooltip.requests < MaxRequests
    /\ \E vis \in JsBool :
          /\ tooltip' = onOpenChange(tooltip, vis)
          /\ twin' = onOpenChange(twin, vis)
    /\ UNCHANGED <<node, aligned, child, adapted>>

AliasSetContent ==
    /\ \E title \in Contents, overlay \in Contents :
          /\ <<title, overlay>> # <<tooltip.props.title, tooltip.props.overlay>>
          /\ tooltip' = RenderContent(tooltip, title, overlay)
          /\ twin' = RenderContent(twin, title, overlay)
    /\ UNCHANGED <<node, aligned, child, adapted>>

AliasSetControl ==
    /\ \E k \in {"open", "visible"}, b \in JsBool :
          /\ tooltip.props[k] \in JsBool
          /\ tooltip.props[k] # b
          /\ tooltip' = RenderControl(tooltip, k, b)
          /\ twin' = RenderControl(twin, Other(k), b)
    /\ UNCHANGED <<node, aligned, child, adapted>>

NextAlias == AliasRequestOpen \/ AliasSetContent \/ AliasSetControl

SpecAlias == InitAlias /\ [][NextAlias]_vars

-----------------------------------------------------------------------------
(* Properties of the open-state controller *)

Uncontrolled(t) == ~In(t.props, "open") /\ ~In(t.props, "visible")

Controlled(t) == t.props.open \in JsBool \/ t.props.visible \in JsBool

IsRequest == tooltip'.requests = tooltip.requests + 1

\* C1: an uncontrolled tooltip (neither open nor visible in props) with empty
\* content always hands CLOSED to the renderer, whatever the defaults were
\* and whatever was requested.
C1_UncontrolledEmptyClosed ==
    (Uncontrolled(tooltip) /\ isNoTitle(tooltip.props)) => tempOpen(tooltip) = JsFalse

C1_Witness ==
    /\ Uncontrolled(tooltip) /\ isNoTitle(tooltip.props)
    /\ DefaultValue(tooltip.props) = JsTrue
    /\ tooltip.lastRequest.vis = JsTrue /\ ~tooltip.lastRequest.stale

\* C2: a requestOpen call made while the content is empty calls no listener:
\* the log of listener calls is unchanged by it.
C2_EmptyNeverNotifies ==
    [][(IsRequest /\ isNoTitle(tooltip.props)) => tooltip'.calls = tooltip.calls]_vars

C2_Witness ==
    /\ isNoTitle(tooltip.props)
    /\ In(tooltip.props, "onOpenChange") /\ In(tooltip.props, "onVisibleChange")
    /\ tooltip.requests = 2 /\ tooltip.lastRequest.noTitle /\ ~tooltip.lastRequest.stale
    /\ tooltip.calls = <<>>

\* C3 as stated: a controlled tooltip with empty content hands CLOSED to the
\* renderer.
C3_Original ==
    (Controlled(tooltip) /\ isNoTitle(tooltip.props)) => tempOpen(tooltip) = JsFalse

\* C3: a controlled tooltip with empty content hands the caller's value
\* (open ?? visible) to the renderer; empty content does not close it.
C3_ControlledEmptyFollowsProp ==
    (Controlled(tooltip) /\ isNoTitle(tooltip.props))
        => tempOpen(tooltip) = MergedValue(tooltip.props)

C3_Witness ==
    /\ tooltip.props.open = JsTrue /\ isNoTitle(tooltip.props)
    /\ tooltip.lastRequest.vis = JsFalse
    /\ tempOpen(tooltip) = JsTrue

\* C4: with title = 0 and no overlay the content is not empty: the overlay
\* handed to the renderer is 0, the force-closed override does not apply, and
\* requestOpen(v) stores v and calls the listeners with v.
C4_ZeroTitleIsContent ==
    [][(Get(tooltip.props, "title") = JsZero /\ ~Truthy(tooltip.props.overlay)) =>
          /\ ~isNoTitle(tooltip.props)
          /\ getOverlay(tooltip.props) = JsZero
          /\ tempOpen(tooltip) = Open(tooltip)
          /\ IsRequest =>
                /\ tooltip'.innerValue = tooltip'.lastRequest.vis
                /\ tooltip'.calls = tooltip.calls \o Notify(tooltip.props, tooltip'.lastRequest.vis)
                /\ Uncontrolled(tooltip) => tempOpen(tooltip') = tooltip'.lastRequest.vis]_vars

C4_Witness ==
    /\ tooltip.props.title = JsZero /\ tooltip.props.overlay = JsAbsent
    /\ Uncontrolled(tooltip)
    /\ tooltip.lastRequest.vis = JsTrue /\ ~tooltip.lastRequest.stale
    /\ tempOpen(tooltip) = JsTrue
    /\ tooltip.calls = <<[fn |-> "onOpenChange", arg |-> JsTrue]>>

\* The first defined value among open, visible, defaultOpen, defaultVisible,
\* and false when there is none.
Resolved(p) ==
    IF p.open \in JsBool THEN p.open
    ELSE IF p.visible \in JsBool THEN p.visible
    ELSE IF p.defaultOpen \in JsBool THEN p.defaultOpen
    ELSE IF p.defaultVisible \in JsBool THEN p.defaultVisible
    ELSE JsFalse

OnlyOne(p) ==
    \/ p.open = JsAbsent /\ p.visible \in JsBool
    \/ p.visible = JsAbsent /\ p.open \in JsBool

\* C5: a tooltip given only `visible` and its twin given only `open` with the
\* same value hand the same visibility and overlay to the renderer and make
\* the same listener calls at every step; and the open state is resolved in
\* the order open > visible > defaultOpen > defaultVisible (the defaults
\* counting until the first request).
C5_VisibleIsOpen ==
    /\ OnlyOne(tooltip.props) =>
          /\ tempOpen(tooltip) = tempOpen(twin)
          /\ getOverlay(tooltip.props) = getOverlay(twin.props)
          /\ tooltip.calls = twin.calls
    /\ (Controlled(tooltip) \/ tooltip.requests = 0) =>
          Open(tooltip) = Resolved(tooltip.props)

C5_Witness ==
    /\ tooltip.props.visible = JsTrue /\ tooltip.props.open = JsAbsent
    /\ twin.props.open = JsTrue /\ twin.props.visible = JsAbsent
    /\ tooltip.props.defaultOpen = JsFalse
    /\ tooltip.requests = 2 /\ tooltip.lastRequest.vis = JsFalse
    /\ Len(tooltip.calls) = 4
    /\ tempOpen(twin) = JsTrue

\* C6 as stated: a second requestOpen(true) in a row, with content present
\* and unchanged, calls no listener.
C6_Original ==
    [][(/\ tooltip.lastRequest.vis = JsTrue
        /\ ~tooltip.lastRequest.noTitle /\ ~tooltip.lastRequest.stale
        /\ IsRequest /\ tooltip'.lastRequest.vis = JsTrue)
          => tooltip'.calls = tooltip.calls]_vars

\* C6: every requestOpen(v) made with content present calls each supplied
\* listener once with v, also when v is the state already held: two
\* requestOpen(true) calls in a row make two calls of each listener.
C6_EveryRequestNotifies ==
    [][(IsRequest /\ ~isNoTitle(tooltip.props))
          => tooltip'.calls = tooltip.calls \o Notify(tooltip.props, tooltip'.lastRequest.vis)]_vars

C6_Witness ==
    /\ ~isNoTitle(tooltip.props)
    /\ tooltip.requests = 2 /\ ~tooltip.lastRequest.stale
    /\ tooltip.calls = <<[fn |-> "onOpenChange", arg |-> JsTrue],
                         [fn |-> "onOpenChange", arg |-> JsTrue]>>

RequestedWhileEmpty(t) ==
    /\ Uncontrolled(t)
    /\ t.lastRequest.vis = JsTrue /\ t.lastRequest.noTitle
    /\ t.lastRequest.stale /\ ~isNoTitle(t.props)

\* C10 as stated: after requestOpen(true) made while the content was empty,
\* an uncontrolled tooltip whose content then becomes non-empty renders OPEN.
C10_Original == RequestedWhileEmpty(tooltip) => tempOpen(tooltip) = JsTrue

\* C10: requestOpen(true) made while the content is empty stores CLOSED, so
\* an uncontrolled tooltip whose content then becomes non-empty, with no
\* further request, renders CLOSED.
C10_EmptyRequestNotTracked == RequestedWhileEmpty(tooltip) => tempOpen(tooltip) = JsFalse

C10_Witness == RequestedWhileEmpty(tooltip) /\ DefaultValue(tooltip.props) = JsTrue

-----------------------------------------------------------------------------
(* SpecAlign: onPopupAlign *)

\* Placement names, as the characters the regular expressions of
\* onPopupAlign read.
N_left == <<"l", "e", "f", "t">>
N_right == <<"r", "i", "g", "h", "t">>
N_top == <<"t", "o", "p">>
N_bottom == <<"b", "o", "t", "t", "o", "m">>
N_topLeft == <<"t", "o", "p", "L", "e", "f", "t">>
N_leftTop == <<"l", "e", "f", "t", "T", "o", "p">>
N_topRight == <<"t", "o", "p", "R", "i", "g", "h", "t">>
N_rightTop == <<"r", "i", "g", "h", "t", "T", "o", "p">>
N_bottomRight == <<"b", "o", "t", "t", "o", "m", "R", "i", "g", "h", "t">>
N_rightBottom == <<"r", "i", "g", "h", "t", "B", "o", "t", "t", "o", "m">>
N_bottomLeft == <<"b", "o", "t", "t", "o", "m", "L", "e", "f", "t">>
N_leftBottom == <<"l", "e", "f", "t", "B", "o", "t", "t", "o", "m">>
N_custom == <<"c", "u", "s", "t", "o", "m">>

PlacementNames ==
    {N_top, N_left, N_right, N_bottom, N_topLeft, N_topRight, N_bottomLeft,
     N_bottomRight, N_leftTop, N_leftBottom, N_rightTop, N_rightBottom}

\* The table getTooltipPlacements() returns when the caller passes no
\* builtinPlacements and arrowPointAtCenter is false: the keys and points of
\* rc-tooltip's placements, in key order.  getPlacements itself lives in
\* _util/placements; onPopupAlign reads only the names and points.
DefaultPlacements ==
    <<[name |-> N_left, points |-> <<"cr", "cl">>],
      [name |-> N_right, points |-> <<"cl", "cr">>],
      [name |-> N_top, points |-> <<"bc", "tc">>],
      [name |-> N_bottom, points |-> <<"tc", "bc">>],
      [name |-> N_topLeft, points |-> <<"bl", "tl">>],
      [name |-> N_leftTop, points |-> <<"tr", "tl">>],
      [name |-> N_topRight, points |-> <<"br", "tr">>],
      [name |-> N_rightTop, points |-> <<"tl", "tr">>],
      [name |-> N_bottomRight, points |-> <<"tr", "br">>],
      [name |-> N_rightBottom, points |-> <<"bl", "br">>],
      [name |-> N_bottomLeft, points |-> <<"tl", "bl">>],
      [name |-> N_leftBottom, points |-> <<"br", "bl">>]>>

\* Tables a caller passes as builtinPlacements: one whose entries share
\* their points, and one with a key that is no placement name.
SharedPointsPlacements ==
    <<[name |-> N_bottom, points |-> <<"tc", "bc">>],
      [name |-> N_top, points |-> <<"tc", "bc">>],
      [name |-> N_left, points |-> <<"cr", "cl">>]>>

CustomPlacements ==
    <<[name |-> N_custom, points |-> <<"cc", "cc">>],
      [name |-> N_rightTop, points |-> <<"tl", "tr">>]>>

PlacementTables == {DefaultPlacements, SharedPointsPlacements, CustomPlacements}

\* align.points of the alignment rc-trigger reports: the points of some
\* entry, points of no entry, or no points at all.
AlignPoints ==
    UNION {{t[i].points : i \in 1..Len(t)} : t \in PlacementTables}
        \cup {<<"tc", "tc">>, <<>>}

\* align.offset and the rectangle getBoundingClientRect() measures.
AlignOffsets == {<<0, 8>>, <<8, 0>>, <<-4, 3>>}
Rects == {[width |-> 100, height |-> 40], [width |-> 60, height |-> 24]}

\* s.includes(sub), the test of a regular expression that is one literal.
Contains(s, sub) ==
    \E i \in 1..(Len(s) - Len(sub) + 1) : SubSeq(s, i, i + Len(sub) - 1) = sub

\* /top|Bottom/.test, /Top|bottom/.test, /left|Right/.test, /right|Left/.test
TestTopOrBottomSuffixAnyCase(s) ==
    Contains(s, <<"t","o","p">>) \/ Contains(s, <<"B","o","t","t","o","m">>)
        \/ Contains(s, <<"T","o","p">>) \/ Contains(s, <<"b","o","t","t","o","m">>)
TestTopOrBottomSuffix(s) ==
    Contains(s, <<"t","o","p">>) \/ Contains(s, <<"B","o","t","t","o","m">>)
TestBottomOrTopSuffix(s) ==
    Contains(s, <<"T","o","p">>) \/ Contains(s, <<"b","o","t","t","o","m">>)
TestLeftOrRightSuffix(s) ==
    Contains(s, <<"l","e","f","t">>) \/ Contains(s, <<"R","i","g","h","t">>)
TestRightOrLeftSuffix(s) ==
    Contains(s, <<"r","i","g","h","t">>) \/ Contains(s, <<"L","e","f","t">>)

\* A CSS length: `${n}px` or `${n}%`.
Px(n) == [n |-> n, unit |-> "px"]
Percent(n) == [n |-> n, unit |-> "%"]

\* points[i] of an alignment, undefined when there are no points.
PointAt(points, i) == IF i <= Len(points) THEN points[i] ELSE JsUndefined

\* Object.keys(placements).find(...): the index of the first entry whose two
\* points equal the alignment's, 0 when there is none.
FindPlacement(placements, points) ==
    LET hits == {i \in 1..Len(placements) :
                    /\ placements[i].points[1] = PointAt(points, 1)
                    /\ placements[i].points[2] = PointAt(points, 2)}
    IN IF hits = {} THEN 0 ELSE CHOOSE i \in hits : \A j \in hits : i <= j

\* transformOrigin.top and transformOrigin.left for a placement name.
OriginTopSwapped(placement, rect, offset) ==
    IF TestBottomOrTopSuffix(placement) THEN Px(rect.height - offset[2])
    ELSE IF TestTopOrBottomSuffix(placement) THEN Px(-offset[2])
    ELSE Percent(50)
OriginTop(placement, rect, offset) ==
    IF TestTopOrBottomSuffix(placement) THEN Px(rect.height - offset[2])
    ELSE IF TestBottomOrTopSuffix(placement) THEN Px(-offset[2])
    ELSE Percent(50)

OriginLeft(placement, rect, offset) ==
    IF TestLeftOrRightSuffix(placement) THEN Px(rect.width - offset[1])
    ELSE IF TestRightOrLeftSuffix(placement) THEN Px(-offset[1])
    ELSE Percent(50)

\* onPopupAlign(domNode, align): the node's style.transformOrigin afterwards,
\* `${left} ${top}` as the pair <<left, top>>, and <<>> while it is not set.
onPopupAlign(origin, placements, points, offset, rect) ==
    LET i == FindPlacement(placements, points)
    IN IF i = 0 THEN origin
       ELSE <<OriginLeft(placements[i].name, rect, offset),
              OriginTop(placements[i].name, rect, offset)>>

InitAlign ==
    /\ tooltip = NoTooltip
    /\ twin = NoTooltip
    /\ node = <<>>
    /\ aligned = <<>>
    /\ child = <<>>
    /\ adapted = <<>>

\* An alignment pass: rc-trigger calls onPopupAlign with the popup node and
\* the alignment it used.  aligned keeps the call's inputs and the node's
\* transform-origin from before the call.
PopupAlign ==
    /\ \E placements \in PlacementTables, points \in AlignPoints,
          offset \in AlignOffsets, rect \in Rects :
          /\ node' = onPopupAlign(node, placements, points, offset, rect)
          /\ aligned' = <<[placements |-> placements, points |-> points,
                           offset |-> offset, rect |-> rect, before |-> node]>>
    /\ UNCHANGED <<tooltip, twin, child, adapted>>

NextAlign == PopupAlign

SpecAlign == InitAlign /\ [][NextAlign]_vars

\* The name of the first entry of the table whose points are the alignment's.
MatchedNames(a) ==
    LET hits == {i \in 1..Len(a.placements) : a.placements[i].points = a.points}
    IN {a.placements[i].name : i \in {h \in hits : \A j \in hits : h <= j}}

\* C7: the transform-origin is computed per axis from the name of the first
\* table entry whose points equal the alignment's, by the table of the twelve
\* placement names; when no entry matches the transform-origin is unchanged.
C7_OriginByPlacement ==
    \A i \in 1..Len(aligned) :
      LET a == aligned[i]
          h == a.rect.height
          w == a.rect.width
          oy == a.offset[2]
          ox == a.offset[1]
      IN /\ MatchedNames(a) = {} => node = a.before
         /\ \A name \in MatchedNames(a) \cap PlacementNames :
              /\ Len(node) = 2
              /\ name \in {N_top, N_topLeft, N_topRight, N_leftBottom, N_rightBottom}
                    => node[2] = Px(h - oy)
              /\ name \in {N_bottom, N_bottomLeft, N_bottomRight, N_leftTop, N_rightTop}
                    => node[2] = Px(-oy)
              /\ name \in {N_left, N_right} => node[2] = Percent(50)
              /\ name \in {N_left, N_leftTop, N_leftBottom, N_topRight, N_bottomRight}
                    => node[1] = Px(w - ox)
              /\ name \in {N_right, N_rightTop, N_rightBottom, N_topLeft, N_bottomLeft}
                    => node[1] = Px(-ox)
              /\ name \in {N_top, N_bottom} => node[1] = Percent(50)

\* Placement top, rect 100x40, offset [0,8]: top 32px, left 50%; reached from
\* a node whose transform-origin an earlier pass had set.
C7_Witness ==
    /\ aligned # <<>>
    /\ MatchedNames(aligned[1]) = {N_top}
    /\ aligned[1].rect = [width |-> 100, height |-> 40]
    /\ aligned[1].offset = <<0, 8>>
    /\ aligned[1].before # <<>>
    /\ node = <<Percent(50), Px(32)>>

RightTopCase ==
    /\ aligned # <<>>
    /\ MatchedNames(aligned[1]) = {N_rightTop}
    /\ aligned[1].offset = <<8, 0>>
    /\ aligned[1].rect.width = 60

\* C8 as stated: placement rightTop, offset [8,0], rect width 60 gives
\* left -8px and top 50%.
C8_Original == RightTopCase => node = <<Px(-8), Percent(50)>>

\* C8: placement rightTop, offset [8,0], rect width 60 gives left -8px and
\* top 0px: rightTop is a Top-suffixed name, so top is -offsetY.
C8_RightTopOrigin == RightTopCase => node = <<Px(-8), Px(0)>>

C8_Witness == RightTopCase /\ aligned[1].placements = DefaultPlacements

-----------------------------------------------------------------------------
(* SpecAdapt: getDisabledCompatibleChildren *)

\* The keys splitObject is asked to pick, in the order of the call.
LayoutKeys == <<"position", "left", "right", "top", "bottom", "float", "display", "zIndex">>

LayoutKeySet == {LayoutKeys[i] : i \in 1..Len(LayoutKeys)}

\* Keys of React.CSSProperties a child's style is drawn from.
StyleKeys == LayoutKeySet \cup {"color", "cursor", "pointerEvents", "width"}

\* Values of a style key; a key may be present with the value undefined.
StyleValues == {"v1", JsUndefined}

\* Inline styles of at most MaxStyleKeys keys.
Styles ==
    UNION {[ks -> StyleValues] : ks \in {k \in SUBSET StyleKeys : Cardinality(k) <= MaxStyleKeys}}

EmptyStyle == [k \in {} |-> "v1"]

\* element.type: the antd Button, Switch and Radio carry the marker
\* __ANT_BUTTON, __ANT_SWITCH, __ANT_RADIO; "button" and "span" are native.
ElementTypes == {"AntButton", "AntSwitch", "AntRadio", "button", "span"}

\* A React element: its type and the props the tooltip reads.  hasStyle is
\* FALSE when props.style is undefined (style is then EmptyStyle).
Elements ==
    {e \in [type : ElementTypes, disabled : BOOLEAN, loading : BOOLEAN, block : BOOLEAN,
            hasStyle : BOOLEAN, style : Styles, className : {JsAbsent, "str:btn"},
            children : {<<>>}] :
        ~e.hasStyle => e.style = EmptyStyle}

\* { ...a, ...b }
Spread(a, b) == [k \in DOMAIN a \cup DOMAIN b |-> IF k \in DOMAIN b THEN b[k] ELSE a[k]]

\* splitObject(obj, keys), obj being undefined when hasObj is FALSE.
splitObjectKeepsPicked(hasObj, obj, keys) ==
    LET hit == {keys[i] : i \in {j \in 1..Len(keys) : hasObj /\ keys[j] \in DOMAIN obj}}
    IN [picked |-> [k \in hit |-> obj[k]],
        omitted |-> obj]
splitObject(hasObj, obj, keys) ==
    LET hit == {keys[i] : i \in {j \in 1..Len(keys) : hasObj /\ keys[j] \in DOMAIN obj}}
    IN [picked |-> [k \in hit |-> obj[k]],
        omitted |-> [k \in DOMAIN obj \ hit |-> obj[k]]]

\* The condition under which the child is wrapped.
IsDisabledControl(e) ==
    \/ e.type \in {"AntButton", "button"} /\ e.disabled
    \/ e.type = "AntSwitch" /\ (e.disabled \/ e.loading)
    \/ e.type = "AntRadio" /\ e.disabled

getDisabledCompatibleChildren(element) ==
    IF IsDisabledControl(element)
    THEN LET split == splitObject(element.hasStyle, element.style, LayoutKeys)
             spanStyle ==
                 Spread(Spread([k \in {"display"} |-> "inline-block"], split.picked),
                        [k \in {"cursor", "width"} |->
                            IF k = "cursor" THEN "not-allowed"
                            ELSE IF element.block THEN "100%" ELSE JsUndefined])
             buttonStyle == Spread(split.omitted, [k \in {"pointerEvents"} |-> "none"])
             inner == [element EXCEPT !.hasStyle = TRUE, !.style = buttonStyle,
                                      !.className = "null"]
         IN [type |-> "span", disabled |-> FALSE, loading |-> FALSE, block |-> FALSE,
             hasStyle |-> TRUE, style |-> spanStyle,
             className |-> IF element.className = JsAbsent
                           THEN "str:ant-tooltip-disabled-compatible-wrapper"
                           ELSE "str:btn ant-tooltip-disabled-compatible-wrapper",
             children |-> <<inner>>]
    ELSE element

InitAdapt ==
    /\ tooltip = NoTooltip
    /\ twin = NoTooltip
    /\ node = <<>>
    /\ aligned = <<>>
    /\ \E e \in Elements : child = <<e>>
    /\ adapted = <<>>

\* A render of the Tooltip: the child goes through the adapter.
Adapt ==
    /\ adapted = <<>>
    /\ adapted' = <<getDisabledCompatibleChildren(child[1])>>
    /\ UNCHANGED <<tooltip, twin, node, aligned, child>>

NextAdapt == Adapt

SpecAdapt == InitAdapt /\ [][NextAdapt]_vars

\* k in style
Has(style, k) == k \in DOMAIN style

Wrapped == adapted # <<>> /\ IsDisabledControl(child[1])

\* C9 as stated: for a recognized disabled child every layout key of its
\* style is on the wrapper only, and every other key is on the inner child
\* only, each with its value.
C9_Original ==
    Wrapped =>
      LET style == child[1].style
          wrapper == adapted[1].style
          inner == adapted[1].children[1].style
      IN \A k \in DOMAIN style :
           IF k \in LayoutKeySet
           THEN Has(wrapper, k) /\ wrapper[k] = style[k] /\ ~Has(inner, k)
           ELSE Has(inner, k) /\ inner[k] = style[k] /\ ~Has(wrapper, k)

\* C9: for a recognized disabled child every layout key of its style is on
\* the wrapper only, with its value; every other key is on the inner child,
\* with its value except pointerEvents, and not on the wrapper except cursor
\* and width, which the wrapper always sets; the inner child has
\* pointerEvents none; the wrapper has cursor not-allowed, width 100% for a
\* block child and undefined otherwise, and display inline-block when the
\* child's style has no display key.  Any other child is returned unchanged.
C9_StylePartition ==
    /\ Wrapped =>
         LET style == child[1].style
             wrapper == adapted[1].style
             inner == adapted[1].children[1].style
         IN /\ \A k \in DOMAIN style :
                 IF k \in LayoutKeySet
                 THEN Has(wrapper, k) /\ wrapper[k] = style[k] /\ ~Has(inner, k)
                 ELSE /\ Has(inner, k)
                      /\ k # "pointerEvents" => inner[k] = style[k]
                      /\ k \notin {"cursor", "width"} => ~Has(wrapper, k)
            /\ inner["pointerEvents"] = "none"
            /\ wrapper["cursor"] = "not-allowed"
            /\ wrapper["width"] = IF child[1].block THEN "100%" ELSE JsUndefined
            /\ ~Has(style, "display") => wrapper["display"] = "inline-block"
            /\ adapted[1].type = "span"
    /\ (adapted # <<>> /\ ~IsDisabledControl(child[1])) => adapted[1] = child[1]

\* A disabled button with style {position, color}: position on the wrapper,
\* color and pointerEvents none on the inner child.
C9_Witness ==
    /\ Wrapped
    /\ child[1].type = "AntButton"
    /\ child[1].style = [k \in {"position", "color"} |-> "v1"]
    /\ adapted[1].style["position"] = "v1"
    /\ adapted[1].children[1].style["color"] = "v1"
    /\ DOMAIN adapted[1].style = {"display", "position", "cursor", "width"}
    /\ DOMAIN adapted[1].children[1].style = {"color", "pointerEvents"}

=============================================================================
